---- MODULE Spec2Model ----
(***************************************************************************)
(* Model of googledataprocauthenticator/google.py: the GoogleAuth          *)
(* authenticator (construction, widget selection, endpoint refresh,        *)
(* per-request signing) and the module-level helpers it sequences.         *)
(*                                                                         *)
(* Four specifications share the variables:                                *)
(*   SpecEnum  - list_credentialed_accounts and list_accounts_pairs as     *)
(*               pure functions over bounded inputs;                       *)
(*   Spec      - the life cycle of one GoogleAuth instance;                *)
(*   SpecWidget- the same, driven only through the account widget;         *)
(*   SpecSign  - interleaved invocations of GoogleAuth.__call__.           *)
(***************************************************************************)
EXTENDS Integers, Sequences, FiniteSets, TLC

\* ------------------------------------------------------------------ bounds
MaxAccounts == 2   \* distinct account names besides the literal 'default-credentials'
MaxListed == 2     \* entries in the JSON array printed by `gcloud auth list`
NumTokens == 2     \* distinct access tokens a refresh can yield
NumCalls == 2      \* invocations of __call__ that may be in flight together

\* --------------------------------------------------------------- constants
\* Python's None, as a value distinct from every string the program handles.
None == "<None>"

\* the literal used at google.py lines 54, 179, 194 and 238
DefaultCredentials == "default-credentials"

AccountNames == <<"alice@example.com", "bob@example.com", "carol@example.com", "dave@example.com">>
TokenNames == <<"ya29.a", "ya29.b", "ya29.c", "ya29.d">>

\* Account names `gcloud auth list` may print.  The code itself allows for a
\* listed account called 'default-credentials' (line 179 tests the name AND
\* the flag), so the name is part of the universe.
Accounts == {AccountNames[i] : i \in 1..MaxAccounts} \cup {DefaultCredentials}

Tokens == {TokenNames[i] : i \in 1..NumTokens}

\* the 'status' field of an entry of `gcloud auth list --format json`
Statuses == {"ACTIVE", ""}

ListedEntries == [account : Accounts, status : Statuses]

\* every JSON array of at most MaxListed entries
Listings == UNION {[1..n -> ListedEntries] : n \in 0..MaxListed}

VARIABLES
    \* --- SpecEnum: inputs and results of the two pure helpers
    all_accounts,        \* json.loads(accounts_json), line 75
    token_ok,            \* accounts for which get_auth_access_token succeeds
    adc_in,              \* the default_credentials_configured argument
    enum_pc,             \* "input" | "listed" | "paired" | "raised"
    enum_accounts,       \* first component of list_credentialed_accounts()
    enum_active,         \* second component of list_credentialed_accounts()
    pairs_result,        \* list_accounts_pairs(enum_accounts, adc_in)
    \* --- Spec: the fields of one GoogleAuth instance
    state,               \* "new" | "ready" | "failed" (constructor raised)
    credentialed_accounts,
    default_credentials_configured,
    active_credentials,
    credentials,
    url,
    widget_value,        \* google_credentials_widget.value
    widget_disabled,     \* google_credentials_widget.disabled
    last,                \* the last operation: name, argument, calls made, exception
    \* --- SpecSign: the invocations of __call__
    pc,                  \* per invocation: "idle" | "refresh" | "attach" | "returned" | "raised"
    request,             \* per invocation: the request object passed in
    returned,            \* per invocation: id of the returned request, 0 if none
    saw_invalid,         \* per invocation: line 260 found credentials.valid false
    refreshes,           \* per invocation: calls of credentials.refresh it made
    redundant            \* per invocation: its refresh ran on already valid credentials

enumVars == <<all_accounts, token_ok, adc_in, enum_pc, enum_accounts, enum_active, pairs_result>>
authVars == <<state, credentialed_accounts, default_credentials_configured,
              active_credentials, credentials, url, widget_value, widget_disabled, last>>
signVars == <<pc, request, returned, saw_invalid, refreshes, redundant>>
vars == <<enumVars, authVars, signVars>>

\* ------------------------------------------------------------ python dicts
\* d[k] = v on a dict modelled as a function
DictSet(d, k, v) == [x \in (DOMAIN d) \cup {k} |-> IF x = k THEN v ELSE d[x]]

\* ---------------------------------------------------- list_accounts_pairs
list_accounts_pairs_always_default(credentialed_accounts_, default_credentials_configured_) ==
    DictSet([account \in credentialed_accounts_ |-> account],
            DefaultCredentials, DefaultCredentials)

list_accounts_pairs(credentialed_accounts_, default_credentials_configured_) ==
    LET accounts_dict == [account \in credentialed_accounts_ |-> account]
    IN  IF default_credentials_configured_
        THEN DictSet(accounts_dict, DefaultCredentials, DefaultCredentials)
        ELSE accounts_dict

\* ---------------------------------------------- list_credentialed_accounts
\* The for loop of lines 78-87 from entry i on, with the two accumulators.
\* get_auth_access_token(account) succeeds iff account \in ok; its
\* UserAccessTokenError is caught per entry.
RECURSIVE ListLoop(_, _, _, _, _)
ListLoop(all, i, ok, accs, active) ==
    IF i > Len(all)
    THEN [accounts |-> accs, active |-> active]
    ELSE LET account == all[i]
         IN  IF account.account \in ok
             THEN ListLoop(all, i + 1, ok, accs \cup {account.account},
                           IF account.status = "ACTIVE" THEN account.account ELSE active)
             ELSE ListLoop(all, i + 1, ok, accs, active)

\* the loop with the status test hoisted above the token probe
RECURSIVE ListLoopActiveFirst(_, _, _, _, _)
ListLoopActiveFirst(all, i, ok, accs, active) ==
    IF i > Len(all)
    THEN [accounts |-> accs, active |-> active]
    ELSE LET account == all[i]
             act == IF account.status = "ACTIVE" THEN account.account ELSE active
         IN  IF account.account \in ok
             THEN ListLoopActiveFirst(all, i + 1, ok, accs \cup {account.account}, act)
             ELSE ListLoopActiveFirst(all, i + 1, ok, accs, act)

\* the loop with the try/except around the whole loop: the first token
\* failure ends the enumeration
RECURSIVE ListLoopAbort(_, _, _, _, _)
ListLoopAbort(all, i, ok, accs, active) ==
    IF i > Len(all)
    THEN [accounts |-> accs, active |-> active]
    ELSE LET account == all[i]
         IN  IF account.account \in ok
             THEN ListLoopAbort(all, i + 1, ok, accs \cup {account.account},
                                IF account.status = "ACTIVE" THEN account.account ELSE active)
             ELSE [accounts |-> accs, active |-> active]

list_credentialed_accounts_active_first(all, ok) == ListLoopActiveFirst(all, 1, ok, {}, None)

list_credentialed_accounts_abort(all, ok) == ListLoopAbort(all, 1, ok, {}, None)

\* lines 76-88: the value returned when `gcloud auth list` could be run
list_credentialed_accounts(all, ok) == ListLoop(all, 1, ok, {}, None)

\* ------------------------------------------------------------ credentials
\* self.credentials is None
NoCredentials == [via |-> "none", account |-> None, valid |-> FALSE, token |-> None]

\* A credentials object as the identity library hands it out: no token yet,
\* so it reports invalid until its first refresh.
NewCredentials(via, account) == [via |-> via, account |-> account, valid |-> FALSE, token |-> None]

\* get_credentials_for_account(account, scopes): the credentials, or
\* UserAccessTokenError when `gcloud auth describe` fails or prints something
\* that is no authorized-user record (ok = FALSE).
get_credentials_for_account(account, ok) ==
    IF ok
    THEN [raised |-> None, credentials |-> NewCredentials("gcloud", account),
          calls |-> <<"get_credentials_for_account">>]
    ELSE [raised |-> "UserAccessTokenError", credentials |-> NoCredentials,
          calls |-> <<"get_credentials_for_account">>]

\* google.auth.default(scopes=self.scopes) called to obtain credentials
google_auth_default(ok) ==
    IF ok
    THEN [raised |-> None, credentials |-> NewCredentials("default", DefaultCredentials),
          calls |-> <<"google.auth.default">>]
    ELSE [raised |-> "DefaultCredentialsError", credentials |-> NoCredentials,
          calls |-> <<"google.auth.default">>]

\* the calls every construction makes before it selects an identity
EnumerationCalls == <<"list_credentialed_accounts", "application_default_credentials_configured">>

\* ------------------------------------------------------ GoogleAuth.__init__
\* lines 177-190 with the membership test after the resolution
ExplicitAccountResolveFirst(account, account_dict, adc, ok) ==
    LET r == IF account = DefaultCredentials /\ adc
             THEN google_auth_default(ok)
             ELSE get_credentials_for_account(account, ok)
    IN  IF account \in DOMAIN account_dict
        THEN [raised |-> r.raised, calls |-> r.calls,
              active_credentials |-> account, credentials |-> r.credentials]
        ELSE [raised |-> "BadUserConfigurationException", calls |-> r.calls,
              active_credentials |-> None, credentials |-> NoCredentials]

\* lines 177-190: parsed_attributes is not None
ExplicitAccount(account, account_dict, adc, ok) ==
    IF account \in DOMAIN account_dict
    THEN LET r == IF account = DefaultCredentials /\ adc
                  THEN google_auth_default(ok)
                  ELSE get_credentials_for_account(account, ok)
         IN  [raised |-> r.raised, calls |-> r.calls,
              active_credentials |-> account, credentials |-> r.credentials]
    ELSE [raised |-> "BadUserConfigurationException", calls |-> <<>>,
          active_credentials |-> None, credentials |-> NoCredentials]

\* lines 192-199 with the two sources tried in the other order
ImplicitAccountActiveFirst(active_user_account, adc, ok) ==
    IF active_user_account # None
    THEN LET r == get_credentials_for_account(active_user_account, ok)
         IN  [raised |-> r.raised, calls |-> r.calls,
              active_credentials |-> IF r.raised = None THEN active_user_account ELSE None,
              credentials |-> r.credentials]
    ELSE IF adc
    THEN LET r == google_auth_default(ok)
         IN  [raised |-> r.raised, calls |-> r.calls,
              active_credentials |-> IF r.raised = None THEN DefaultCredentials ELSE None,
              credentials |-> r.credentials]
    ELSE [raised |-> None, calls |-> <<>>,
          active_credentials |-> None, credentials |-> NoCredentials]

\* lines 192-199: parsed_attributes is None
ImplicitAccount(active_user_account, adc, ok) ==
    IF adc
    THEN LET r == google_auth_default(ok)
         IN  [raised |-> r.raised, calls |-> r.calls,
              active_credentials |-> IF r.raised = None THEN DefaultCredentials ELSE None,
              credentials |-> r.credentials]
    ELSE IF active_user_account # None
    THEN LET r == get_credentials_for_account(active_user_account, ok)
         IN  [raised |-> r.raised, calls |-> r.calls,
              active_credentials |-> IF r.raised = None THEN active_user_account ELSE None,
              credentials |-> r.credentials]
    ELSE [raised |-> None, calls |-> <<>>,
          active_credentials |-> None, credentials |-> NoCredentials]

\* parsed_attributes: <<>> is None, <<a>> an object whose .account is a
ParsedAttributes == {<<>>} \cup {<<a>> : a \in Accounts \cup {None}}

\* Authenticator.__init__ (the host's base class) leaves this url when the
\* configuration carries none
BaseUrl == "http://example.com/livy"

\* what `last` records of an operation
Op(op, arg, calls, raised, active_user_account) ==
    [op |-> op, arg |-> arg, calls |-> calls, raised |-> raised,
     active_user_account |-> active_user_account]

\* GoogleAuth(parsed_attributes), lines 168-201.  The environment decides
\* whether gcloud can be run, what `gcloud auth list` prints, which accounts
\* yield an access token, whether default credentials are configured and
\* whether the one credential resolution the constructor makes succeeds.
Construct ==
    /\ state = "new"
    /\ \E parsed_attributes \in ParsedAttributes, gcloud_ok \in BOOLEAN, all \in Listings,
          ok \in SUBSET Accounts, adc \in BOOLEAN, resolve_ok \in BOOLEAN :
          IF ~gcloud_ok
          THEN \* line 170 raises BadUserConfigurationException("Gcloud cannot be invoked.")
               /\ state' = "failed"
               /\ last' = Op("__init__", parsed_attributes, <<"list_credentialed_accounts">>,
                             "BadUserConfigurationException", None)
               /\ UNCHANGED <<credentialed_accounts, default_credentials_configured,
                              active_credentials, credentials, url, widget_value,
                              widget_disabled>>
          ELSE LET e == list_credentialed_accounts(all, ok)
                   account_dict == list_accounts_pairs(e.accounts, adc)
                   r == IF parsed_attributes # <<>>
                        THEN ExplicitAccount(parsed_attributes[1], account_dict, adc, resolve_ok)
                        ELSE ImplicitAccount(e.active, adc, resolve_ok)
               IN  /\ credentialed_accounts' = e.accounts
                   /\ default_credentials_configured' = adc
                   /\ active_credentials' = r.active_credentials
                   /\ credentials' = r.credentials
                   /\ state' = IF r.raised = None THEN "ready" ELSE "failed"
                   /\ last' = Op("__init__", parsed_attributes, EnumerationCalls \o r.calls,
                                 r.raised, e.active)
                   \* line 200, then get_widgets, lines 221-230
                   /\ url' = IF r.raised = None THEN BaseUrl ELSE url
                   /\ widget_value' = IF r.raised = None THEN r.active_credentials ELSE None
                   /\ widget_disabled' = (r.raised = None /\ r.active_credentials = None)
    /\ UNCHANGED <<enumVars, signVars>>

\* the options of google_credentials_widget, line 222
WidgetOptions == list_accounts_pairs(credentialed_accounts, default_credentials_configured)

\* The user picks an entry of the account dropdown; a disabled dropdown
\* (line 230) takes no selection.
SelectAccount ==
    /\ state = "ready"
    /\ ~widget_disabled
    /\ \E label \in DOMAIN WidgetOptions :
          /\ widget_value' = WidgetOptions[label]
          /\ last' = Op("select", <<label>>, <<>>, None, None)
    /\ UNCHANGED <<state, credentialed_accounts, default_credentials_configured,
                   active_credentials, credentials, url, widget_disabled>>
    /\ UNCHANGED <<enumVars, signVars>>

\* lines 237-241 with the comparison dropped: every call resolves
initialize_credentials_always(account, active, current, ok) ==
    LET r == IF account = DefaultCredentials
             THEN google_auth_default(ok)
             ELSE get_credentials_for_account(account, ok)
    IN  [raised |-> r.raised, calls |-> r.calls,
         credentials |-> IF r.raised = None THEN r.credentials ELSE current]

\* initialize_credentials_with_auth_account_selection(account), lines 235-241,
\* on an instance whose active_credentials is `active` and whose credentials
\* are `current`
initialize_credentials_with_auth_account_selection(account, active, current, ok) ==
    IF account # active
    THEN LET r == IF account = DefaultCredentials
                  THEN google_auth_default(ok)
                  ELSE get_credentials_for_account(account, ok)
         IN  [raised |-> r.raised, calls |-> r.calls,
              credentials |-> IF r.raised = None THEN r.credentials ELSE current]
    ELSE [raised |-> None, calls |-> <<>>, credentials |-> current]

\* a direct call of the method
InitializeCredentials ==
    /\ state = "ready"
    /\ \E account \in Accounts, ok \in BOOLEAN :
          LET r == initialize_credentials_with_auth_account_selection(
                       account, active_credentials, credentials, ok)
          IN  /\ credentials' = r.credentials
              /\ last' = Op("initialize_credentials_with_auth_account_selection",
                            <<account>>, r.calls, r.raised, None)
    /\ UNCHANGED <<state, credentialed_accounts, default_credentials_configured,
                   active_credentials, url, widget_value, widget_disabled>>
    /\ UNCHANGED <<enumVars, signVars>>

\* response.config.endpoint_config.http_ports.popitem()[1], parsed (line 150)
HttpPortUrls ==
    {[scheme |-> "http", netloc |-> "host:1234", path |-> ""],
     [scheme |-> "https", netloc |-> "abc-dot-us-east1.dataproc.googleusercontent.com",
      path |-> "/livy/"]}

\* line 151
get_component_gateway_url(parsed_uri) ==
    parsed_uri.scheme \o "://" \o parsed_uri.netloc \o "/" \o "gateway/default/livy/v1"

\* lines 249-257 with the Endpoint Resolver called before the None test
update_with_widget_values_resolve_first(current, current_url, selected, active, parsed_uri, endpoint_ok, ok) ==
    IF ~endpoint_ok
    THEN [raised |-> "GoogleAPICallError", calls |-> <<"get_component_gateway_url">>,
          url |-> current_url, credentials |-> current]
    ELSE IF current = NoCredentials
    THEN [raised |-> "BadUserConfigurationException", calls |-> <<"get_component_gateway_url">>,
          url |-> get_component_gateway_url(parsed_uri), credentials |-> current]
    ELSE LET r == initialize_credentials_with_auth_account_selection(selected, active, current, ok)
         IN  [raised |-> r.raised, calls |-> <<"get_component_gateway_url">> \o r.calls,
              url |-> get_component_gateway_url(parsed_uri), credentials |-> r.credentials]

\* update_with_widget_values(), lines 243-257, on an instance with
\* credentials `current`, url `current_url`, dropdown value `selected` and
\* active_credentials `active`
update_with_widget_values(current, current_url, selected, active, parsed_uri, endpoint_ok, ok) ==
    IF current # NoCredentials
    THEN IF endpoint_ok
         THEN LET r == initialize_credentials_with_auth_account_selection(
                           selected, active, current, ok)
              IN  [raised |-> r.raised, calls |-> <<"get_component_gateway_url">> \o r.calls,
                   url |-> get_component_gateway_url(parsed_uri), credentials |-> r.credentials]
         ELSE [raised |-> "GoogleAPICallError", calls |-> <<"get_component_gateway_url">>,
               url |-> current_url, credentials |-> current]
    ELSE [raised |-> "BadUserConfigurationException", calls |-> <<>>,
          url |-> current_url, credentials |-> current]

UpdateWithWidgetValues ==
    /\ state = "ready"
    /\ \E parsed_uri \in HttpPortUrls, endpoint_ok \in BOOLEAN, ok \in BOOLEAN :
          LET r == update_with_widget_values(credentials, url, widget_value,
                                             active_credentials, parsed_uri, endpoint_ok, ok)
          IN  /\ credentials' = r.credentials
              /\ url' = r.url
              /\ last' = Op("update_with_widget_values", <<>>, r.calls, r.raised, None)
    /\ UNCHANGED <<state, credentialed_accounts, default_credentials_configured,
                   active_credentials, widget_value, widget_disabled>>
    /\ UNCHANGED <<enumVars, signVars>>

\* ------------------------------------------------- the pure helpers, applied
\* line 74: `gcloud auth list` runs (then lines 75-88) or cannot be invoked
\* (lines 89-91)
CallListCredentialedAccounts ==
    /\ enum_pc = "input"
    /\ \E gcloud_ok \in BOOLEAN :
          IF gcloud_ok
          THEN LET e == list_credentialed_accounts(all_accounts, token_ok)
               IN  /\ enum_accounts' = e.accounts
                   /\ enum_active' = e.active
                   /\ enum_pc' = "listed"
          ELSE /\ enum_pc' = "raised"
               /\ UNCHANGED <<enum_accounts, enum_active>>
    /\ UNCHANGED <<all_accounts, token_ok, adc_in, pairs_result>>
    /\ UNCHANGED <<authVars, signVars>>

\* line 174: the option set computed from the enumeration and the flag
CallListAccountsPairs ==
    /\ enum_pc = "listed"
    /\ pairs_result' = list_accounts_pairs(enum_accounts, adc_in)
    /\ enum_pc' = "paired"
    /\ UNCHANGED <<all_accounts, token_ok, adc_in, enum_accounts, enum_active>>
    /\ UNCHANGED <<authVars, signVars>>

\* ------------------------------------------------------ GoogleAuth.__call__
Calls == 1..NumCalls

\* str(x) as an f-string renders it
Str(x) == IF x = None THEN "None" ELSE x

BearerHeaderNoScheme(token) == Str(token)

\* f'Bearer {self.credentials.token}', line 262
BearerHeader(token) == "Bearer " \o Str(token)

\* request.headers of the requests the host passes in
RequestHeaders ==
    {<<>>, [k \in {"Authorization", "Content-Type"} |->
               IF k = "Authorization" THEN "Basic c3Bhcms6" ELSE "application/json"]}

\* line 259-260: the host calls auth(request); the call reads credentials.valid
Call(p) ==
    /\ state = "ready"
    /\ credentials # NoCredentials
    /\ pc[p] \in {"idle", "returned", "raised"}
    /\ \E h \in RequestHeaders : request' = [request EXCEPT ![p] = [id |-> p, headers |-> h]]
    /\ returned' = [returned EXCEPT ![p] = 0]
    /\ saw_invalid' = [saw_invalid EXCEPT ![p] = ~credentials.valid]
    /\ refreshes' = [refreshes EXCEPT ![p] = 0]
    /\ redundant' = [redundant EXCEPT ![p] = FALSE]
    /\ pc' = [pc EXCEPT ![p] = IF credentials.valid THEN "attach" ELSE "refresh"]
    /\ UNCHANGED <<enumVars, authVars>>

\* line 261 guarded by a second look at credentials.valid
RefreshIfStillInvalid(p) ==
    /\ pc[p] = "refresh"
    /\ IF credentials.valid
       THEN /\ pc' = [pc EXCEPT ![p] = "attach"]
            /\ UNCHANGED <<credentials, refreshes, redundant>>
       ELSE \E ok \in BOOLEAN, token \in Tokens :
               /\ refreshes' = [refreshes EXCEPT ![p] = @ + 1]
               /\ redundant' = [redundant EXCEPT ![p] = FALSE]
               /\ IF ok
                  THEN /\ credentials' = [credentials EXCEPT !.valid = TRUE, !.token = token]
                       /\ pc' = [pc EXCEPT ![p] = "attach"]
                  ELSE /\ pc' = [pc EXCEPT ![p] = "raised"]
                       /\ UNCHANGED credentials
    /\ UNCHANGED <<state, credentialed_accounts, default_credentials_configured,
                   active_credentials, url, widget_value, widget_disabled, last>>
    /\ UNCHANGED <<request, returned, saw_invalid>>
    /\ UNCHANGED enumVars

\* line 261: self.credentials.refresh(self.callable_request) yields a token
\* and valid credentials, or raises and leaves the credentials as they were
Refresh(p) ==
    /\ pc[p] = "refresh"
    /\ \E ok \in BOOLEAN, token \in Tokens :
          /\ refreshes' = [refreshes EXCEPT ![p] = @ + 1]
          /\ redundant' = [redundant EXCEPT ![p] = credentials.valid]
          /\ IF ok
             THEN /\ credentials' = [credentials EXCEPT !.valid = TRUE, !.token = token]
                  /\ pc' = [pc EXCEPT ![p] = "attach"]
             ELSE /\ pc' = [pc EXCEPT ![p] = "raised"]
                  /\ UNCHANGED credentials
    /\ UNCHANGED <<state, credentialed_accounts, default_credentials_configured,
                   active_credentials, url, widget_value, widget_disabled, last>>
    /\ UNCHANGED <<request, returned, saw_invalid>>
    /\ UNCHANGED enumVars

\* lines 262-263
Attach(p) ==
    /\ pc[p] = "attach"
    /\ request' = [request EXCEPT ![p].headers =
                      DictSet(@, "Authorization", BearerHeader(credentials.token))]
    /\ returned' = [returned EXCEPT ![p] = request[p].id]
    /\ pc' = [pc EXCEPT ![p] = "returned"]
    /\ UNCHANGED <<saw_invalid, refreshes, redundant>>
    /\ UNCHANGED <<enumVars, authVars>>

\* the token's expiry passes: credentials.valid (line 260) turns false
Expire ==
    /\ credentials # NoCredentials
    /\ credentials.valid
    /\ credentials' = [credentials EXCEPT !.valid = FALSE]
    /\ UNCHANGED <<state, credentialed_accounts, default_credentials_configured,
                   active_credentials, url, widget_value, widget_disabled, last>>
    /\ UNCHANGED <<enumVars, signVars>>

\* ---------------------------------------------------------- specifications
EnumIdle ==
    /\ all_accounts = <<>>
    /\ token_ok = {}
    /\ adc_in = FALSE
    /\ enum_pc = "input"
    /\ enum_accounts = {}
    /\ enum_active = None
    /\ pairs_result = <<>>

SignIdle ==
    /\ pc = [p \in Calls |-> "idle"]
    /\ request = [p \in Calls |-> [id |-> 0, headers |-> <<>>]]
    /\ returned = [p \in Calls |-> 0]
    /\ saw_invalid = [p \in Calls |-> FALSE]
    /\ refreshes = [p \in Calls |-> 0]
    /\ redundant = [p \in Calls |-> FALSE]

\* before GoogleAuth(...) is called: no field is set
AuthNew ==
    /\ state = "new"
    /\ credentialed_accounts = {}
    /\ default_credentials_configured = FALSE
    /\ active_credentials = None
    /\ credentials = NoCredentials
    /\ url = None
    /\ widget_value = None
    /\ widget_disabled = FALSE
    /\ last = Op("none", <<>>, <<>>, None, None)

Init == AuthNew /\ EnumIdle /\ SignIdle

Next == Construct \/ SelectAccount \/ InitializeCredentials \/ UpdateWithWidgetValues

Spec == Init /\ [][Next]_vars

\* the instance driven as the notebook drives it: the dropdown, then
\* update_with_widget_values
NextWidget == Construct \/ SelectAccount \/ UpdateWithWidgetValues

SpecWidget == Init /\ [][NextWidget]_vars

InitEnum ==
    /\ all_accounts \in Listings
    /\ token_ok \in SUBSET Accounts
    /\ adc_in \in BOOLEAN
    /\ enum_pc = "input"
    /\ enum_accounts = {}
    /\ enum_active = None
    /\ pairs_result = <<>>
    /\ AuthNew
    /\ SignIdle

NextEnum == CallListCredentialedAccounts \/ CallListAccountsPairs

SpecEnum == InitEnum /\ [][NextEnum]_vars

\* An instance as GoogleAuth(None) leaves it when one account is listed,
\* ACTIVE and token-acquirable: default credentials if configured, else
\* that account (lines 192-197).
InitSign ==
    /\ \E adc \in BOOLEAN :
          LET e == list_credentialed_accounts(
                       <<[account |-> AccountNames[1], status |-> "ACTIVE"]>>, {AccountNames[1]})
              r == ImplicitAccount(e.active, adc, TRUE)
          IN  /\ state = "ready"
              /\ credentialed_accounts = e.accounts
              /\ default_credentials_configured = adc
              /\ active_credentials = r.active_credentials
              /\ credentials = r.credentials
              /\ url = BaseUrl
              /\ widget_value = r.active_credentials
              /\ widget_disabled = FALSE
              /\ last = Op("__init__", <<>>, EnumerationCalls \o r.calls, None, e.active)
    /\ EnumIdle
    /\ SignIdle

NextSign == (\E p \in Calls : Call(p) \/ Refresh(p) \/ Attach(p)) \/ Expire

SpecSign == InitSign /\ [][NextSign]_vars

\* ------------------------------------------------------------------ claims
Range(seq) == {seq[i] : i \in DOMAIN seq}

\* the last operation was a construction whose enumeration returned
ConstructedPastEnumeration ==
    /\ last.op = "__init__"
    /\ Len(last.calls) >= Len(EnumerationCalls)
    /\ SubSeq(last.calls, 1, Len(EnumerationCalls)) = EnumerationCalls

\* C1: a construction given an explicit account that is no key of
\* list_accounts_pairs(credentialed accounts, default-credentials flag) raises
\* BadUserConfigurationException and makes no credential resolution call:
\* neither get_credentials_for_account nor google.auth.default for credentials.
C1_UnknownExplicitAccountRejected ==
    (/\ ConstructedPastEnumeration
     /\ last.arg # <<>>
     /\ last.arg[1] \notin DOMAIN list_accounts_pairs(credentialed_accounts,
                                                      default_credentials_configured))
    => /\ state = "failed"
       /\ last.raised = "BadUserConfigurationException"
       /\ last.calls = EnumerationCalls

C1_Witness ==
    /\ ConstructedPastEnumeration
    /\ last.arg # <<>>
    /\ last.arg[1] \in Accounts
    /\ credentialed_accounts # {}
    /\ default_credentials_configured
    /\ last.arg[1] \notin DOMAIN list_accounts_pairs(credentialed_accounts,
                                                     default_credentials_configured)
    /\ state = "failed"

\* C2: a construction without an explicit account picks, in this order:
\* default credentials when configured (active identity
\* 'default-credentials', get_credentials_for_account not called, whatever the
\* active CLI identity); else the enumerator's active identity, with the
\* resolver's credentials; else no credentials, no active identity, no error.
C2_ImplicitPriority ==
    (ConstructedPastEnumeration /\ last.arg = <<>>)
    => IF default_credentials_configured
       THEN /\ "get_credentials_for_account" \notin Range(last.calls)
            /\ state = "ready" => /\ active_credentials = DefaultCredentials
                                  /\ credentials = NewCredentials("default", DefaultCredentials)
       ELSE IF last.active_user_account # None
       THEN /\ last.calls = EnumerationCalls \o <<"get_credentials_for_account">>
            /\ state = "ready" => /\ active_credentials = last.active_user_account
                                  /\ credentials = NewCredentials("gcloud", last.active_user_account)
       ELSE /\ state = "ready"
            /\ last.raised = None
            /\ last.calls = EnumerationCalls
            /\ credentials = NoCredentials
            /\ active_credentials = None

C2_Witness ==
    /\ ConstructedPastEnumeration
    /\ last.arg = <<>>
    /\ state = "ready"
    /\ default_credentials_configured
    /\ last.active_user_account \in credentialed_accounts
    /\ active_credentials = DefaultCredentials

\* C4: once constructed, and after any calls of update_with_widget_values and
\* initialize_credentials_with_auth_account_selection, active_credentials is
\* None or a key of list_accounts_pairs(credentialed_accounts,
\* default_credentials_configured).
C4_ActiveIsAnOption ==
    state = "ready"
    => \/ active_credentials = None
       \/ active_credentials \in DOMAIN list_accounts_pairs(credentialed_accounts,
                                                            default_credentials_configured)

C4_Witness ==
    /\ state = "ready"
    /\ last.op = "update_with_widget_values"
    /\ last.raised = None
    /\ active_credentials \in credentialed_accounts
    /\ credentials.account # active_credentials

\* C6: update_with_widget_values on an instance whose credentials are None
\* raises BadUserConfigurationException, calls neither the Endpoint Resolver
\* nor the re-selection, and leaves url, credentials and active_credentials
\* as they were.
C6_UpdateWithoutCredentials ==
    [][(last'.op = "update_with_widget_values" /\ credentials = NoCredentials)
       => /\ last'.raised = "BadUserConfigurationException"
          /\ last'.calls = <<>>
          /\ UNCHANGED <<url, credentials, active_credentials>>]_vars

C6_Witness ==
    /\ state = "ready"
    /\ last.op = "update_with_widget_values"
    /\ last.raised = "BadUserConfigurationException"
    /\ credentials = NoCredentials
    /\ credentialed_accounts # {}

\* what a step that ran the re-selection for `account`, making `calls`, must
\* have done
Reselected(account, calls, raised) ==
    /\ active_credentials' = active_credentials
    /\ IF account = active_credentials
       THEN /\ calls = <<>>
            /\ credentials' = credentials
       ELSE /\ calls = <<IF account = DefaultCredentials
                         THEN "google.auth.default"
                         ELSE "get_credentials_for_account">>
            /\ credentials' = IF raised # None
                              THEN credentials
                              ELSE NewCredentials(IF account = DefaultCredentials
                                                  THEN "default" ELSE "gcloud", account)

\* C8: initialize_credentials_with_auth_account_selection(account) resolves
\* credentials anew (google.auth.default for 'default-credentials', else
\* get_credentials_for_account) exactly when account differs from
\* active_credentials; when they are equal it makes no call and leaves the
\* credentials; it never changes active_credentials.  Checked for the direct
\* call and for the call update_with_widget_values makes at line 257.
C8_ReselectionFrame ==
    [][/\ last'.op = "initialize_credentials_with_auth_account_selection"
          => Reselected(last'.arg[1], last'.calls, last'.raised)
       /\ (/\ last'.op = "update_with_widget_values"
           /\ credentials # NoCredentials
           /\ last'.raised # "GoogleAPICallError")
          => Reselected(widget_value, Tail(last'.calls), last'.raised)]_vars

C8_Witness ==
    /\ last.op = "initialize_credentials_with_auth_account_selection"
    /\ last.arg[1] = active_credentials
    /\ last.calls = <<>>
    /\ credentials.account # active_credentials
    /\ credentials # NoCredentials

\* C10: after a successful update_with_widget_values the credentials held are
\* those resolved for the account selected in the dropdown, also when the
\* user picked another account and then the originally active one again.
C10_CredentialsFollowSelection ==
    (state = "ready" /\ last.op = "update_with_widget_values" /\ last.raised = None)
    => credentials.account = widget_value

\* C5 as stated: list_accounts_pairs(A, d) maps every account of A to itself,
\* has a 'default-credentials' entry iff d, and has |A| + (1 if d else 0)
\* entries.
C5_AsStated ==
    enum_pc = "paired"
    => /\ \A a \in enum_accounts :
             a \in DOMAIN pairs_result /\ pairs_result[a] = a
       /\ (DefaultCredentials \in DOMAIN pairs_result) <=> adc_in
       /\ Cardinality(DOMAIN pairs_result)
             = Cardinality(enum_accounts) + (IF adc_in THEN 1 ELSE 0)

\* C5 amended: the keys of list_accounts_pairs(A, d) are the accounts of A
\* and, when d, 'default-credentials'; every key maps to itself; the size is
\* |A| + 1 when d and 'default-credentials' is not in A, and |A| otherwise.
C5_PairsOfAccounts ==
    enum_pc = "paired"
    => /\ DOMAIN pairs_result
             = enum_accounts \cup (IF adc_in THEN {DefaultCredentials} ELSE {})
       /\ \A k \in DOMAIN pairs_result : pairs_result[k] = k
       /\ Cardinality(DOMAIN pairs_result)
             = Cardinality(enum_accounts)
               + (IF adc_in /\ DefaultCredentials \notin enum_accounts THEN 1 ELSE 0)

C5_Witness ==
    /\ enum_pc = "paired"
    /\ adc_in
    /\ DefaultCredentials \notin enum_accounts
    /\ Cardinality(enum_accounts) >= 2
    /\ Cardinality(DOMAIN pairs_result) = Cardinality(enum_accounts) + 1

\* C7: list_credentialed_accounts returns exactly the listed identities whose
\* token acquisition succeeds (a failure drops that identity only), and its
\* active identity is None or an identity listed as ACTIVE that is in the
\* returned set, so never an ACTIVE identity whose token acquisition fails.
C7_EnumerationResult ==
    enum_pc \in {"listed", "paired"}
    => /\ enum_accounts
             = {all_accounts[i].account : i \in DOMAIN all_accounts} \cap token_ok
       /\ \/ enum_active = None
          \/ /\ enum_active \in enum_accounts
             /\ \E i \in DOMAIN all_accounts :
                   all_accounts[i] = [account |-> enum_active, status |-> "ACTIVE"]
       /\ \A i \in DOMAIN all_accounts :
             (all_accounts[i].status = "ACTIVE" /\ all_accounts[i].account \notin token_ok)
             => enum_active # all_accounts[i].account

C7_Witness ==
    /\ enum_pc = "listed"
    /\ \E i, j \in DOMAIN all_accounts :
          /\ i < j
          /\ all_accounts[i].status = "ACTIVE"
          /\ all_accounts[i].account \notin token_ok
          /\ all_accounts[j].account \in enum_accounts
    /\ enum_active = None

\* C3: every __call__ that finds the credentials invalid calls refresh
\* exactly once before it attaches the header, one that finds them valid
\* never does; the request returned is the one passed in, and its
\* Authorization header is "Bearer " followed by the credentials' token as
\* it is after any refresh.
C3_Signing ==
    /\ [](\A p \in Calls :
            /\ pc[p] \in {"attach", "returned"}
               => refreshes[p] = (IF saw_invalid[p] THEN 1 ELSE 0)
            /\ pc[p] = "refresh" => (saw_invalid[p] /\ refreshes[p] = 0)
            /\ pc[p] = "returned" => returned[p] = request[p].id)
    /\ [][\A p \in Calls :
            (pc[p] = "attach" /\ pc'[p] = "returned")
            => /\ request'[p].id = request[p].id
               /\ "Authorization" \in DOMAIN request'[p].headers
               /\ request'[p].headers["Authorization"] = "Bearer " \o credentials.token
               /\ credentials.token \in Tokens]_vars

C3_Witness ==
    \E p, q \in Calls :
       /\ pc[p] = "returned" /\ saw_invalid[p] /\ refreshes[p] = 1
       /\ pc[q] = "returned" /\ ~saw_invalid[q] /\ refreshes[q] = 0
       /\ request[p].headers["Authorization"] = "Bearer " \o TokenNames[1]
       /\ request[q].headers["Authorization"] = "Bearer " \o TokenNames[1]

\* C9: nothing guards the validity check and the refresh: an invocation that
\* found the credentials invalid calls refresh whatever they report by then,
\* so two interleaved invocations can both refresh the one Credentials
\* object, the second on credentials the first has already made valid.
C9_UnguardedRefresh ==
    [][\A p \in Calls :
          (pc[p] = "refresh" /\ pc'[p] # "refresh")
          => /\ refreshes'[p] = refreshes[p] + 1
             /\ redundant'[p] = credentials.valid]_vars

C9_Witness ==
    \E p, q \in Calls :
       /\ p # q
       /\ saw_invalid[p] /\ saw_invalid[q]
       /\ refreshes[p] = 1 /\ refreshes[q] = 1
       /\ redundant[q]
       /\ credentials.valid

====
